---- MODULE Spec2Model ----
(***************************************************************************)
(* Model of cliproxy_credman/cli.py: the credential batch manager.         *)
(*                                                                         *)
(* Three specifications share the module:                                  *)
(*   Spec          one run of run_once: load, concurrent checks, deletion  *)
(*   SpecClassify  the provider response classifiers on (status, body)     *)
(*   SpecOffline   the offline expiry analysis on (metadata, now)          *)
(* Text that the code inspects (response bodies) is kept as sequences of   *)
(* characters; the functions keep their names from the source.             *)
(***************************************************************************)
EXTENDS Integers, Sequences, FiniteSets, TLC

(***************************************************************************)
(* Bounds of the model.                                                    *)
(***************************************************************************)
\* Largest number of credential records loaded in one run.
MaxRecords == 2
\* Instants are Unix seconds 0..MaxTime; "now" ranges over 1..MaxTime.
MaxTime == 3

(***************************************************************************)
(* Text: str.lower() and the substring test `needle in text`.              *)
(***************************************************************************)
TOKEN_INVALIDATED ==
    <<"t", "o", "k", "e", "n", "_", "i", "n", "v", "a", "l", "i", "d", "a", "t", "e", "d">>

AUTH_TOKEN_INVALIDATED ==
    <<"a", "u", "t", "h", "e", "n", "t", "i", "c", "a", "t", "i", "o", "n", " ", "t", "o", "k", "e", "n", " ", "h", "a", "s", " ", "b", "e", "e", "n", " ", "i", "n", "v", "a", "l", "i", "d", "a", "t", "e", "d">>

DEACTIVATED ==
    <<"d", "e", "a", "c", "t", "i", "v", "a", "t", "e", "d">>

ACCOUNT_DEACTIVATED ==
    <<"a", "c", "c", "o", "u", "n", "t", " ", "h", "a", "s", " ", "b", "e", "e", "n", " ", "d", "e", "a", "c", "t", "i", "v", "a", "t", "e", "d">>

INVALID_TOKEN ==
    <<"i", "n", "v", "a", "l", "i", "d", "_", "t", "o", "k", "e", "n">>

INVALID ==
    <<"i", "n", "v", "a", "l", "i", "d">>

UNAUTHORIZED ==
    <<"u", "n", "a", "u", "t", "h", "o", "r", "i", "z", "e", "d">>

BodyEmpty ==
    <<>>

BodyOk ==
    <<"o", "k">>

BodyTokenInvalidated ==
    <<"c", "o", "d", "e", ":", " ", "T", "o", "k", "e", "n", "_", "I", "n", "v", "a", "l", "i", "d", "a", "t", "e", "d">>

BodyAuthInvalidated ==
    <<"Y", "o", "u", "r", " ", "a", "u", "t", "h", "e", "n", "t", "i", "c", "a", "t", "i", "o", "n", " ", "t", "o", "k", "e", "n", " ", "h", "a", "s", " ", "b", "e", "e", "n", " ", "i", "n", "v", "a", "l", "i", "d", "a", "t", "e", "d", ".">>

BodyDeactivated ==
    <<"A", "c", "c", "o", "u", "n", "t", " ", "D", "E", "A", "C", "T", "I", "V", "A", "T", "E", "D">>

BodyBoth ==
    <<"d", "e", "a", "c", "t", "i", "v", "a", "t", "e", "d", ";", " ", "t", "o", "k", "e", "n", "_", "i", "n", "v", "a", "l", "i", "d", "a", "t", "e", "d">>

BodyInvalidToken ==
    <<"e", "r", "r", "o", "r", ":", " ", "i", "n", "v", "a", "l", "i", "d", "_", "t", "o", "k", "e", "n">>

BodyInvalidValue ==
    <<"I", "n", "v", "a", "l", "i", "d", " ", "V", "a", "l", "u", "e">>

BodyUnauthorized ==
    <<"U", "n", "a", "u", "t", "h", "o", "r", "i", "z", "e", "d">>

BodyNearMiss ==
    <<"t", "o", "k", "e", "n", " ", "i", "n", "v", "a", "l", "i", "d", "a", "t", "e", ";", " ", "d", "e", "a", "c", "t", "i", "v", "a", "t", "e">>

UpperToLower ==
    ("A" :> "a") @@ ("B" :> "b") @@ ("C" :> "c") @@ ("D" :> "d") @@ ("E" :> "e") @@ ("F" :> "f") @@ ("G" :> "g") @@ ("H" :> "h") @@ ("I" :> "i") @@ ("J" :> "j") @@ ("K" :> "k") @@ ("L" :> "l") @@ ("M" :> "m")
    @@ ("N" :> "n") @@ ("O" :> "o") @@ ("P" :> "p") @@ ("Q" :> "q") @@ ("R" :> "r") @@ ("S" :> "s") @@ ("T" :> "t") @@ ("U" :> "u") @@ ("V" :> "v") @@ ("W" :> "w") @@ ("X" :> "x") @@ ("Y" :> "y") @@ ("Z" :> "z")

\* str.lower(), character by character.
LowerChar(c) == IF c \in DOMAIN UpperToLower THEN UpperToLower[c] ELSE c

Lower(text) == [i \in 1..Len(text) |-> LowerChar(text[i])]

\* Python's `needle in text` for strings.
Contains(text, needle) ==
    \E k \in 0..(Len(text) - Len(needle)) :
        \A j \in 1..Len(needle) : text[k + j] = needle[j]

\* The response bodies the classifiers are exercised on.
Bodies ==
    { BodyEmpty, BodyOk, BodyTokenInvalidated, BodyAuthInvalidated,
      BodyDeactivated, BodyBoth, BodyInvalidToken, BodyInvalidValue,
      BodyUnauthorized, BodyNearMiss }

\* HTTP status codes a probe can answer with (0: no status in the envelope).
StatusCodes == {0, 200, 201, 400, 401, 402, 403, 404, 409, 422, 429, 500}

\* Optional[int]: <<>> is None, <<n>> is n.
None == << >>
Some(n) == << n >>

(***************************************************************************)
(* The network.  A reply is a transport failure (URLError, timeout: the    *)
(* exception leaves http_json_request) or an HTTP answer (HTTPError        *)
(* included, which http_json_request turns into its code and text).        *)
(***************************************************************************)
TransportFailure == [kind |-> "fail", code |-> 0, body |-> BodyEmpty]

HttpReply(code, body) == [kind |-> "http", code |-> code, body |-> body]

http_json_request(reply) ==
    IF reply.kind = "fail"
    THEN [raised |-> TRUE, code |-> 0, text |-> BodyEmpty]
    ELSE [raised |-> FALSE, code |-> reply.code, text |-> reply.body]

(***************************************************************************)
(* Credential metadata (the JSON object of one credential file).           *)
(*   type          the provider tag as stored ("" when absent)             *)
(*   access_token  [t, n, dots, payload]: t is "none" (absent or null),    *)
(*                 "empty" (""), "blank" (white space), "int" (a JSON      *)
(*                 number n) or "str" (text with `dots` dots whose middle  *)
(*                 segment is `payload`)                                   *)
(*   expired       [t, local, tz, off]: t is "none", "nonstr", "blank",    *)
(*                 "malformed" or "iso" (local time; tz "naive", "Z" or    *)
(*                 "offset" with off the UTC offset in seconds)            *)
(***************************************************************************)
NoPayload == [enc |-> "none", j |-> "none", ety |-> "none", ev |-> 0]

\* A middle segment that base64-decodes to UTF-8 JSON: j is the kind of JSON
\* value, ety/ev the type and value of its "exp" member.
JsonPayload(j, ety, ev) == [enc |-> "json", j |-> j, ety |-> ety, ev |-> ev]

BadPayload(enc) == [enc |-> enc, j |-> "none", ety |-> "none", ev |-> 0]

Token(t, n, dots, payload) == [t |-> t, n |-> n, dots |-> dots, payload |-> payload]

TokNone == Token("none", 0, 0, NoPayload)
TokEmpty == Token("empty", 0, 0, NoPayload)
TokBlank == Token("blank", 0, 0, NoPayload)
TokInt(n) == Token("int", n, 0, NoPayload)
TokOpaque == Token("str", 0, 0, NoPayload)
TokJwt(payload) == Token("str", 0, 2, payload)
TokJwtExp(exp) == TokJwt(JsonPayload("obj", "int", exp))

Expiry(t, local, tz, off) == [t |-> t, local |-> local, tz |-> tz, off |-> off]

ExpNone == Expiry("none", 0, "naive", 0)
ExpIso(local, tz, off) == Expiry("iso", local, tz, off)

Metadata(type, token, expired) ==
    [type |-> type, access_token |-> token, expired |-> expired]

\* `x or ""` / `str(...)`.strip(): the token text is empty.
TokenMissing(tok) ==
    \/ tok.t \in {"none", "empty", "blank"}
    \/ tok.t = "int" /\ tok.n = 0

\* str(metadata.get("type") or "unknown").strip().lower() or "unknown"
NormalizeProvider(type) ==
    CASE type = "" -> "unknown"
      [] type = "  " -> "unknown"
      [] type = " Codex " -> "codex"
      [] type = "GEMINI" -> "gemini"
      [] OTHER -> type

GoogleFamily == {"antigravity", "gemini", "gemini-cli"}

(***************************************************************************)
(* Offline expiry analysis.                                                *)
(***************************************************************************)
\* "Z" is replaced by "+00:00"; a naive time is taken as UTC; astimezone(utc).
parse_iso_time(value) ==
    IF value.t # "iso"
    THEN None                              \* not a str, blank, or fromisoformat raised
    ELSE IF value.tz = "offset"
         THEN Some(value.local - value.off)
         ELSE Some(value.local)

parse_jwt_exp(token) ==
    IF token.t # "str" \/ token.dots # 2
    THEN None
    ELSE LET p == token.payload IN
         IF p.enc # "json" THEN None       \* b64decode, decode or json.loads raised
         ELSE IF p.j # "obj" THEN None     \* data.get raised AttributeError
         ELSE IF p.ety \in {"int", "bool", "bigint"} /\ p.ev > 0
              THEN IF p.ety = "bigint"
                   THEN None               \* datetime.fromtimestamp raised
                   ELSE Some(p.ev)
              ELSE None

OfflineResult(expired, reason, exp) ==
    [expired |-> expired, reason |-> reason, access_exp |-> exp]

\* Variant: the explicit field is looked at before the token's claim.
offline_expired_field_first(metadata, now_utc) ==
    LET access_exp == parse_jwt_exp(metadata.access_token)
        expired_field == parse_iso_time(metadata.expired)
    IN IF expired_field # None /\ expired_field[1] <= now_utc
       THEN OfflineResult(TRUE, "expired field is in the past", access_exp)
       ELSE IF access_exp # None /\ access_exp[1] <= now_utc
            THEN OfflineResult(TRUE, "access_token jwt exp is in the past", access_exp)
            ELSE OfflineResult(FALSE, "", access_exp)

offline_expired(metadata, now_utc) ==
    LET access_exp == parse_jwt_exp(metadata.access_token)
        expired_field == parse_iso_time(metadata.expired)
    IN IF access_exp # None /\ access_exp[1] <= now_utc
       THEN OfflineResult(TRUE, "access_token jwt exp is in the past", access_exp)
       ELSE IF expired_field # None /\ expired_field[1] <= now_utc
            THEN OfflineResult(TRUE, "expired field is in the past", access_exp)
            ELSE OfflineResult(FALSE, "", access_exp)

(***************************************************************************)
(* Provider probe strategies and response classifiers.                     *)
(***************************************************************************)
CodexAccepted == {200, 201, 400, 402, 403, 404, 409, 422, 429}

ProbeResult(status, code, reason, calls) ==
    [raised |-> FALSE, status |-> status, code |-> code, reason |-> reason,
     calls |-> calls]

ProbeRaised == [raised |-> TRUE, status |-> "", code |-> 0, reason |-> "", calls |-> 1]

\* Lines 264-299: the request to the provider and the reading of its answer.
CodexProbe(metadata, reply) ==
    LET r == http_json_request(reply)
        lower_text == Lower(r.text)
    IN IF r.raised THEN ProbeRaised
       ELSE IF r.code = 401 /\ ( Contains(lower_text, TOKEN_INVALIDATED)
                                 \/ Contains(lower_text, AUTH_TOKEN_INVALIDATED) )
            THEN ProbeResult("invalidated", r.code, "codex token invalidated", 1)
       ELSE IF r.code = 401 /\ ( Contains(lower_text, DEACTIVATED)
                                 \/ Contains(lower_text, ACCOUNT_DEACTIVATED) )
            THEN ProbeResult("deactivated", r.code, "codex account deactivated", 1)
       ELSE IF r.code = 401
            THEN ProbeResult("unauthorized", r.code, "codex unauthorized", 1)
       ELSE IF r.code \in CodexAccepted
            THEN ProbeResult("active", r.code, "codex token appears usable", 1)
       ELSE ProbeResult("unknown", r.code, "codex unexpected response", 1)

\* Variant: the probe is sent although the token is missing.
check_codex_unguarded(metadata, reply) == CodexProbe(metadata, reply)

check_codex(metadata, reply) ==
    IF TokenMissing(metadata.access_token)
    THEN ProbeResult("missing_token", 0, "access_token is missing", 0)
    ELSE CodexProbe(metadata, reply)

check_google_oauth(metadata, reply) ==
    IF TokenMissing(metadata.access_token)
    THEN ProbeResult("missing_token", 0, "access_token is missing", 0)
    ELSE LET r == http_json_request(reply)
             lower_text == Lower(r.text)
         IN IF r.raised THEN ProbeRaised
            ELSE IF r.code = 200
                 THEN ProbeResult("active", r.code, "google tokeninfo accepted token", 1)
            ELSE IF r.code = 400 /\ ( Contains(lower_text, INVALID_TOKEN)
                                      \/ Contains(lower_text, INVALID) )
                 THEN ProbeResult("invalidated", r.code, "google token invalid", 1)
            ELSE IF r.code = 401
                 THEN ProbeResult("unauthorized", r.code, "google token unauthorized", 1)
            ELSE ProbeResult("unknown", r.code, "google tokeninfo unexpected response", 1)

Classified(status, reason) == [status |-> status, reason |-> reason]

\* Variant: deactivation is looked for before invalidation.
classify_codex_response_swapped(status_code, response_text) ==
    LET lower_text == Lower(response_text) IN
    IF status_code = 401 /\ ( Contains(lower_text, DEACTIVATED)
                              \/ Contains(lower_text, ACCOUNT_DEACTIVATED) )
    THEN Classified("deactivated", "codex account deactivated")
    ELSE IF status_code = 401 /\ ( Contains(lower_text, TOKEN_INVALIDATED)
                                   \/ Contains(lower_text, AUTH_TOKEN_INVALIDATED) )
    THEN Classified("invalidated", "codex token invalidated")
    ELSE IF status_code = 401
    THEN Classified("unauthorized", "codex unauthorized")
    ELSE IF status_code \in CodexAccepted
    THEN Classified("active", "codex token appears usable")
    ELSE Classified("unknown", "codex unexpected response")

classify_codex_response(status_code, response_text) ==
    LET lower_text == Lower(response_text) IN
    IF status_code = 401 /\ ( Contains(lower_text, TOKEN_INVALIDATED)
                              \/ Contains(lower_text, AUTH_TOKEN_INVALIDATED) )
    THEN Classified("invalidated", "codex token invalidated")
    ELSE IF status_code = 401 /\ ( Contains(lower_text, DEACTIVATED)
                                   \/ Contains(lower_text, ACCOUNT_DEACTIVATED) )
    THEN Classified("deactivated", "codex account deactivated")
    ELSE IF status_code = 401
    THEN Classified("unauthorized", "codex unauthorized")
    ELSE IF status_code \in CodexAccepted
    THEN Classified("active", "codex token appears usable")
    ELSE Classified("unknown", "codex unexpected response")

\* Variant: HTTP 403 is not taken as a sign of life.
classify_google_response_no403(status_code, response_text) ==
    LET lower_text == Lower(response_text) IN
    IF status_code = 200
    THEN Classified("active", "google oauth token appears usable")
    ELSE IF status_code = 401 /\ ( Contains(lower_text, INVALID)
                                   \/ Contains(lower_text, UNAUTHORIZED) )
    THEN Classified("invalidated", "google oauth token invalid")
    ELSE IF status_code = 401
    THEN Classified("unauthorized", "google oauth unauthorized")
    ELSE Classified("unknown", "google oauth unexpected response")

classify_google_response(status_code, response_text) ==
    LET lower_text == Lower(response_text) IN
    IF status_code = 200
    THEN Classified("active", "google oauth token appears usable")
    ELSE IF status_code = 401 /\ ( Contains(lower_text, INVALID)
                                   \/ Contains(lower_text, UNAUTHORIZED) )
    THEN Classified("invalidated", "google oauth token invalid")
    ELSE IF status_code = 403
    THEN Classified("active", "google oauth token active but scope may be limited")
    ELSE IF status_code = 401
    THEN Classified("unauthorized", "google oauth unauthorized")
    ELSE Classified("unknown", "google oauth unexpected response")

(***************************************************************************)
(* short_text: white space runs become one blank, then the text is cut.    *)
(***************************************************************************)
ShortTextLimit == 260

IsSpace(c) == c = " "

\* " ".join(text.split()): the words of the text, one blank between them.
RECURSIVE Compact(_, _, _)
Compact(text, i, acc) ==
    IF i > Len(text) THEN acc
    ELSE IF IsSpace(text[i]) THEN Compact(text, i + 1, acc)
    ELSE IF i > 1 /\ IsSpace(text[i - 1]) /\ acc # << >>
         THEN Compact(text, i + 1, acc \o << " ", text[i] >>)
         ELSE Compact(text, i + 1, Append(acc, text[i]))

short_text(text, limit) ==
    LET compact == Compact(text, 1, << >>)
    IN IF Len(compact) <= limit THEN compact ELSE SubSeq(compact, 1, limit)

\* repr(error) of the exception a failed request raises.
ErrorRepr ==
    <<"U", "R", "L", "E", "r", "r", "o", "r", ":", " ", " ", "t", "i", "m", "e", "d", " ", "o", "u", "t">>

(***************************************************************************)
(* One unit of work in local and repo mode: check_credential.              *)
(* A file is [name, c, meta]: c is "invalid" (read or JSON parse fails),   *)
(* "nonobject" (the JSON value is not an object) or "object".              *)
(***************************************************************************)
CheckResult(file, path, provider, status, http_status, reason, detail) ==
    [file |-> file, path |-> path, provider |-> provider, status |-> status,
     http_status |-> http_status, reason |-> reason, detail |-> detail]

NoResult == CheckResult("", << >>, "", "", None, "", << >>)

\* What a unit of work ends with: a result, or an exception it lets escape;
\* calls counts the network requests it issued.
Returned(result, calls) == [raised |-> FALSE, result |-> result, calls |-> calls]

Escaped(calls) == [raised |-> TRUE, result |-> NoResult, calls |-> calls]

PathOf(name) == << "auth_dir", name >>

\* Lines 478-497: the provider dispatch and its except clause.
ProviderFirst(provider, metadata, offline, reply) ==
    LET probe == IF provider = "codex" THEN check_codex(metadata, reply)
                 ELSE check_google_oauth(metadata, reply)
    IN IF provider = "codex" \/ provider \in GoogleFamily
       THEN IF probe.raised
            THEN [status |-> "check_error", http_status |-> None,
                  reason |-> "provider check failed",
                  detail |-> short_text(ErrorRepr, ShortTextLimit), calls |-> probe.calls]
            ELSE [status |-> probe.status,
                  http_status |-> IF probe.code > 0 THEN Some(probe.code) ELSE None,
                  reason |-> probe.reason,
                  detail |-> IF probe.calls = 0 THEN << >>
                             ELSE short_text(reply.body, ShortTextLimit),
                  calls |-> probe.calls]
       ELSE IF offline.expired
            THEN [status |-> "expired_by_time", http_status |-> None,
                  reason |-> offline.reason, detail |-> << >>, calls |-> 0]
            ELSE [status |-> "unknown", http_status |-> None,
                  reason |-> "online checker not implemented for this provider",
                  detail |-> << >>, calls |-> 0]

\* Variant: the offline evidence does not override the probe.
ProviderCheckNoOverride(provider, metadata, offline, reply) ==
    ProviderFirst(provider, metadata, offline, reply)

\* Variant: the offline evidence also overrides a failed probe.
ProviderCheckOverridesErrors(provider, metadata, offline, reply) ==
    LET first == ProviderFirst(provider, metadata, offline, reply)
    IN IF first.status \in {"unknown", "active", "check_error"} /\ offline.expired
       THEN [first EXCEPT !.status = "expired_by_time", !.reason = offline.reason]
       ELSE first

\* Lines 478-501: the dispatch, then the override by the offline evidence.
ProviderCheck(provider, metadata, offline, reply) ==
    LET first == ProviderFirst(provider, metadata, offline, reply)
    IN IF first.status \in {"unknown", "active"} /\ offline.expired
       THEN [first EXCEPT !.status = "expired_by_time", !.reason = offline.reason]
       ELSE first

check_credential(file, now, reply) ==
    IF file.c = "invalid"
    THEN Returned(CheckResult(file.name, PathOf(file.name), "unknown", "check_error",
                              None, "invalid json",
                              short_text(ErrorRepr, ShortTextLimit)), 0)
    ELSE IF file.c = "nonobject"
    THEN Escaped(0)                        \* metadata.get raises AttributeError
    ELSE LET metadata == file.meta
             provider == NormalizeProvider(metadata.type)
             offline == offline_expired(metadata, now)
             r == ProviderCheck(provider, metadata, offline, reply)
         IN Returned(CheckResult(file.name, PathOf(file.name), provider, r.status,
                                 r.http_status, r.reason, r.detail), r.calls)

(***************************************************************************)
(* One unit of work in CPA mode: cpa_api_call and cpa_check_entry.         *)
(* The reply of the management api-call endpoint carries, when it is a     *)
(* 200, an envelope: env_ok says it parses to an object with a usable      *)
(* status_code, env_code and env_body are what it reports of the upstream. *)
(***************************************************************************)
ApiCallReply(kind, code, body, env_ok, env_code, env_body) ==
    [kind |-> kind, code |-> code, body |-> body,
     env_ok |-> env_ok, env_code |-> env_code, env_body |-> env_body]

cpa_api_call(reply) ==
    LET r == http_json_request(reply) IN
    IF r.raised THEN r
    ELSE IF r.code # 200 THEN r
    ELSE IF reply.env_ok
         THEN [raised |-> FALSE, code |-> reply.env_code, text |-> reply.env_body]
         ELSE [raised |-> FALSE, code |-> 0, text |-> r.text]

\* An entry of the files list: obj says it is a JSON object; a member that is
\* absent is "".
Entry(obj, name, id, provider, type, auth_index) ==
    [obj |-> obj, name |-> name, id |-> id, provider |-> provider, type |-> type,
     auth_index |-> auth_index]

Or(a, b) == IF a # "" THEN a ELSE b

\* Variant: the request is sent whether or not the entry has an auth_index.
cpa_check_entry_unrouted(entry, reply) ==
    IF ~entry.obj
    THEN Escaped(0)                        \* entry.get raises AttributeError
    ELSE
    LET name == Or(entry.name, Or(entry.id, ""))
        provider == NormalizeProvider(Or(entry.provider, Or(entry.type, "unknown")))
        call == cpa_api_call(reply)
        classified == IF provider = "codex"
                      THEN classify_codex_response(call.code, call.text)
                      ELSE classify_google_response(call.code, call.text)
    IN IF provider = "codex" \/ provider \in GoogleFamily
       THEN IF call.raised
            THEN Returned(CheckResult(name, << >>, provider, "check_error", None,
                                      "cpa api-call failed",
                                      short_text(ErrorRepr, ShortTextLimit)), 1)
            ELSE Returned(CheckResult(name, << >>, provider, classified.status,
                                      Some(call.code), classified.reason,
                                      short_text(call.text, ShortTextLimit)), 1)
       ELSE Returned(CheckResult(name, << >>, provider, "unknown", None,
                                 "unsupported provider in CPA online mode", << >>), 0)

cpa_check_entry(entry, reply) ==
    IF ~entry.obj
    THEN Escaped(0)                        \* entry.get raises AttributeError
    ELSE
    LET name == Or(entry.name, Or(entry.id, ""))
        provider == NormalizeProvider(Or(entry.provider, Or(entry.type, "unknown")))
        auth_index == entry.auth_index
        call == cpa_api_call(reply)
        classified == IF provider = "codex"
                      THEN classify_codex_response(call.code, call.text)
                      ELSE classify_google_response(call.code, call.text)
    IN IF auth_index = ""
       THEN Returned(CheckResult(name, << >>, provider, "unknown", None,
                                 "missing auth_index from CPA auth-files", << >>), 0)
       ELSE IF provider = "codex" \/ provider \in GoogleFamily
       THEN IF call.raised
            THEN Returned(CheckResult(name, << >>, provider, "check_error", None,
                                      "cpa api-call failed",
                                      short_text(ErrorRepr, ShortTextLimit)), 1)
            ELSE Returned(CheckResult(name, << >>, provider, classified.status,
                                      Some(call.code), classified.reason,
                                      short_text(call.text, ShortTextLimit)), 1)
       ELSE Returned(CheckResult(name, << >>, provider, "unknown", None,
                                 "unsupported provider in CPA online mode", << >>), 0)

(***************************************************************************)
(* sorted(results, key=lambda item: item.file): a stable sort.  Names are  *)
(* compared as Python compares the strings of NameOrder.                   *)
(***************************************************************************)
NameOrder == << "", "a.json", "b.json", "c.json", "d.json" >>

Rank(name) == CHOOSE k \in 1..Len(NameOrder) : NameOrder[k] = name

\* item goes after every element whose key is not greater (stability).
RECURSIVE InsertByFile(_, _)
InsertByFile(sorted, item) ==
    IF sorted = << >> THEN << item >>
    ELSE IF Rank(item.res.file) < Rank(Head(sorted).res.file)
         THEN << item >> \o sorted
         ELSE << Head(sorted) >> \o InsertByFile(Tail(sorted), item)

RECURSIVE SortFrom(_, _, _)
SortFrom(items, i, acc) ==
    IF i > Len(items) THEN acc
    ELSE SortFrom(items, i + 1, InsertByFile(acc, items[i]))

\* Variant: the results are aggregated in a table keyed by identifier, so a
\* later result replaces an earlier one of the same file.
SortByFileKeyed(items) ==
    SortFrom(SelectSeq(items, LAMBDA it :
                 \A k \in 1..Len(items) :
                     (items[k].res.file = it.res.file /\ items[k].idx # it.idx)
                         => \E j \in 1..Len(items) : items[j].idx = it.idx /\ k < j),
             1, << >>)

SortByFile(items) == SortFrom(items, 1, << >>)

(***************************************************************************)
(* The deletion executors.  `exists` is the set of paths on disk, `remote` *)
(* the set of names the management API holds.  A call ends with the list   *)
(* it returns (or raised), the backend as it leaves it, and the mutating   *)
(* calls it issued (unlink, DELETE), in order.                             *)
(***************************************************************************)
DeleteState(deleted, backend, issued, raised) ==
    [deleted |-> deleted, backend |-> backend, issued |-> issued, raised |-> raised]

\* unlink_fails: the paths whose unlink raises OSError.
RECURSIVE DeleteLoop(_, _, _, _, _)
DeleteLoop(target_paths, k, dry_run, unlink_fails, st) ==
    IF k > Len(target_paths) \/ st.raised THEN st
    ELSE LET path_text == target_paths[k] IN
         IF path_text \notin st.backend
         THEN DeleteLoop(target_paths, k + 1, dry_run, unlink_fails, st)
         ELSE IF dry_run
         THEN DeleteLoop(target_paths, k + 1, dry_run, unlink_fails,
                         [st EXCEPT !.deleted = Append(@, path_text)])
         ELSE IF path_text \in unlink_fails
         THEN [st EXCEPT !.deleted = Append(@, path_text),
                         !.issued = Append(@, path_text), !.raised = TRUE]
         ELSE DeleteLoop(target_paths, k + 1, dry_run, unlink_fails,
                         [st EXCEPT !.deleted = Append(@, path_text),
                                    !.issued = Append(@, path_text),
                                    !.backend = @ \ {path_text}])

RECURSIVE TargetsOf(_, _, _, _)
TargetsOf(items, k, delete_statuses, cpa) ==
    IF k > Len(items) THEN << >>
    ELSE LET r == items[k].res
             rest == TargetsOf(items, k + 1, delete_statuses, cpa)
         IN IF r.status \in delete_statuses /\ (cpa => r.file # "")
            THEN << (IF cpa THEN r.file ELSE r.path) >> \o rest
            ELSE rest

\* The closed set of statuses.
StatusEnum ==
    {"missing_token", "active", "invalidated", "deactivated", "unauthorized",
     "expired_by_time", "unknown", "check_error"}

\* Variant: every result is a target, whatever its status.
delete_credentials_any_status(items, delete_statuses, dry_run, exists, unlink_fails) ==
    DeleteLoop(TargetsOf(items, 1, StatusEnum, FALSE), 1, dry_run, unlink_fails,
               DeleteState(<< >>, exists, << >>, FALSE))

\* Variant: dry_run is not honoured.
delete_credentials_always_real(items, delete_statuses, dry_run, exists, unlink_fails) ==
    DeleteLoop(TargetsOf(items, 1, delete_statuses, FALSE), 1, FALSE, unlink_fails,
               DeleteState(<< >>, exists, << >>, FALSE))

delete_credentials(items, delete_statuses, dry_run, exists, unlink_fails) ==
    DeleteLoop(TargetsOf(items, 1, delete_statuses, FALSE), 1, dry_run, unlink_fails,
               DeleteState(<< >>, exists, << >>, FALSE))

\* replies[k] is the answer to the DELETE for the k-th target: "ok" (200),
\* "error" (another status) or "fail" (no answer: the request raises).
RECURSIVE DeleteLoopCpa(_, _, _, _, _)
DeleteLoopCpa(targets, k, dry_run, replies, st) ==
    IF k > Len(targets) \/ st.raised THEN st
    ELSE LET name == targets[k]
             listed == [st EXCEPT !.deleted = Append(@, name)]
         IN IF dry_run
            THEN DeleteLoopCpa(targets, k + 1, dry_run, replies, listed)
            ELSE IF replies[k] = "fail"
            THEN [listed EXCEPT !.issued = Append(@, name), !.raised = TRUE]
            ELSE IF replies[k] = "ok"
            THEN DeleteLoopCpa(targets, k + 1, dry_run, replies,
                               [listed EXCEPT !.issued = Append(@, name),
                                              !.backend = @ \ {name}])
            ELSE DeleteLoopCpa(targets, k + 1, dry_run, replies,
                               [listed EXCEPT !.issued = Append(@, name)])

delete_credentials_cpa(items, delete_statuses, dry_run, remote, replies) ==
    DeleteLoopCpa(TargetsOf(items, 1, delete_statuses, TRUE), 1, dry_run, replies,
                  DeleteState(<< >>, remote, << >>, FALSE))

(***************************************************************************)
(* State.                                                                  *)
(*   pc               where the main thread of run_once stands             *)
(*   mode, workers    the source mode and args.workers                     *)
(*   inputs           the records submitted, in submission order           *)
(*   unit, future     each unit of work: "queued", "running", "done", and  *)
(*                    what its future holds once done                      *)
(*   results          the list run_checks builds, then the sorted list it  *)
(*                    returned; idx names the future an item came from     *)
(*   delete_statuses, run_dry_run, interactive, interactive_mode           *)
(*                    the locals of run_once that plan the deletion        *)
(*   deleted_files    the local of that name                               *)
(*   backend          paths on disk (local, repo) or names held by the     *)
(*                    management API (cpa)                                 *)
(*   calls            the calls of the deletion executors so far           *)
(*   git_calls        the calls of git_commit_and_push so far              *)
(*   answers          what the user answered to the prompts of run_once    *)
(*                    that stand before a deletion pass                    *)
(*   source           what the run was given to load its records from      *)
(*   fnIn, fnOut      input and output of the function under analysis in   *)
(*                    SpecClassify, SpecOffline and SpecUnit               *)
(***************************************************************************)
VARIABLES pc, mode, workers, source, inputs, unit, future, results,
          delete_statuses, run_dry_run, interactive, interactive_mode,
          deleted_files, backend, calls, git_calls, answers, fnIn, fnOut

vars == << pc, mode, workers, source, inputs, unit, future, results,
           delete_statuses, run_dry_run, interactive, interactive_mode,
           deleted_files, backend, calls, git_calls, answers, fnIn, fnOut >>

runVars == << pc, mode, workers, source, inputs, unit, future, results,
              delete_statuses, run_dry_run, interactive, interactive_mode,
              deleted_files, backend, calls, git_calls, answers >>

planVars == << delete_statuses, run_dry_run, interactive, interactive_mode,
               deleted_files, calls, git_calls, answers >>

poolVars == << unit, future, results >>

Idle == [fn |-> "none"]

(***************************************************************************)
(* The worlds a run is started in.                                         *)
(***************************************************************************)
Modes == {"local", "repo", "cpa"}

\* args.workers; max(1, workers) is the size of the pool.
WorkerCounts == {0, 2}

PoolSize(w) == IF w > 1 THEN w ELSE 1

\* "now" of a run; 1 is in the past, Future is not.
RunNow == MaxTime

Future == MaxTime + 1

File(name, c, meta) == [name |-> name, c |-> c, meta |-> meta]

NoMeta == Metadata("", TokNone, ExpNone)

\* What a credential file of the run can hold.
RunContents ==
    { [c |-> "invalid", meta |-> NoMeta],
      [c |-> "nonobject", meta |-> NoMeta],
      [c |-> "object", meta |-> Metadata("codex", TokOpaque, ExpNone)],
      [c |-> "object", meta |-> Metadata("codex", TokOpaque, ExpIso(1, "Z", 0))],
      [c |-> "object", meta |-> Metadata("codex", TokNone, ExpNone)],
      [c |-> "object", meta |-> Metadata("other", TokNone, ExpIso(1, "Z", 0))] }

\* What the provider answers to a direct probe.
RunReplies ==
    { TransportFailure,
      HttpReply(401, BodyTokenInvalidated),
      HttpReply(200, BodyOk) }

\* The entries a files list of the management API can hold.
RunEntryNames == {"", "a.json", "b.json"}

RunEntries ==
    { Entry(FALSE, "", "", "", "", "") }
    \cup { Entry(TRUE, n, "", "codex", "", "7") : n \in RunEntryNames }
    \cup { Entry(TRUE, n, "", "", "other", "") : n \in RunEntryNames }

\* What the management api-call endpoint answers.
RunApiReplies ==
    { ApiCallReply("fail", 0, BodyEmpty, FALSE, 0, BodyEmpty),
      ApiCallReply("http", 401, BodyUnauthorized, FALSE, 0, BodyEmpty),
      ApiCallReply("http", 200, BodyOk, TRUE, 401, BodyTokenInvalidated),
      ApiCallReply("http", 200, BodyOk, TRUE, 200, BodyOk) }

\* --delete-statuses, after parse_delete_statuses.
DeleteStatusSets ==
    { {}, {"invalidated", "expired_by_time"},
      {"check_error", "unknown", "missing_token"} }

(***************************************************************************)
(* The source of a run: the arguments that choose it and what the file     *)
(* system, git and the management API hold or answer.                      *)
(***************************************************************************)
World(cpa_url, management_key, auth_dir, repo_url, dir, clone, subdir, listing, records) ==
    [cpa_url |-> cpa_url, management_key |-> management_key, auth_dir |-> auth_dir,
     repo_url |-> repo_url, dir |-> dir, clone |-> clone, subdir |-> subdir,
     listing |-> listing, records |-> records]

\* The value of source before run_once has looked at its arguments.
NoSource == World(FALSE, FALSE, FALSE, FALSE, FALSE, FALSE, FALSE, "none", "none")

LocalWorld == World(FALSE, FALSE, TRUE, FALSE, TRUE, TRUE, TRUE, "none", "some")

RepoWorld == World(FALSE, FALSE, FALSE, TRUE, TRUE, TRUE, TRUE, "none", "some")

CpaWorld == World(TRUE, TRUE, FALSE, FALSE, TRUE, TRUE, TRUE, "ok", "some")

\* What GET /v0/management/auth-files can give: no answer at all, a status
\* other than 200, a 200 whose body is not JSON, is JSON but no object, is an
\* object without a files list, or is an object with one.
Listings == {"transport", "http_error", "not_json", "non_object", "no_files", "ok"}

SourceWorlds ==
    { LocalWorld, RepoWorld, CpaWorld,
      [LocalWorld EXCEPT !.repo_url = TRUE],
      [LocalWorld EXCEPT !.auth_dir = FALSE],
      [LocalWorld EXCEPT !.dir = FALSE],
      [LocalWorld EXCEPT !.records = "none"],
      [RepoWorld EXCEPT !.clone = FALSE],
      [RepoWorld EXCEPT !.subdir = FALSE],
      [RepoWorld EXCEPT !.records = "none"],
      [CpaWorld EXCEPT !.management_key = FALSE],
      [CpaWorld EXCEPT !.records = "none"] }
    \cup { [CpaWorld EXCEPT !.listing = l] : l \in Listings }

\* The mode the arguments ask for.
ModeOf(w) ==
    IF w.cpa_url THEN "cpa"
    ELSE IF w.repo_url /\ ~w.auth_dir THEN "repo"
    ELSE "local"

Loaded(m) == [raised |-> FALSE, error |-> "", mode |-> m]

LoadError(error) == [raised |-> TRUE, error |-> error, mode |-> "none"]

prepare_auth_dir(w) ==
    IF w.auth_dir = w.repo_url
    THEN LoadError("Provide exactly one of --auth-dir or --repo-url")
    ELSE IF w.auth_dir
    THEN IF ~w.dir THEN LoadError("auth dir not found") ELSE Loaded("local")
    ELSE IF ~w.clone THEN LoadError("CalledProcessError: git clone")
    ELSE IF ~w.subdir THEN LoadError("auth subdir not found in repo")
    ELSE Loaded("repo")

\* Variant: the listing is taken whatever status it was answered with.
cpa_fetch_auth_files_any_status(listing) ==
    IF listing = "transport" THEN LoadError("URLError")
    ELSE IF listing = "not_json" THEN LoadError("JSONDecodeError")
    ELSE IF listing = "non_object" THEN LoadError("AttributeError")
    ELSE IF listing = "no_files"
    THEN LoadError("invalid /auth-files response: missing files[]")
    ELSE Loaded("cpa")

cpa_fetch_auth_files(listing) ==
    IF listing = "transport" THEN LoadError("URLError")
    ELSE IF listing = "http_error" THEN LoadError("failed to fetch auth-files")
    ELSE IF listing = "not_json" THEN LoadError("JSONDecodeError")
    ELSE IF listing = "non_object" THEN LoadError("AttributeError")
    ELSE IF listing = "no_files"
    THEN LoadError("invalid /auth-files response: missing files[]")
    ELSE Loaded("cpa")

\* run_once, lines 939-958, up to the call of run_checks / run_checks_cpa.
LoadSource(w) ==
    IF w.cpa_url
    THEN IF ~w.management_key
         THEN LoadError("--management-key is required when --cpa-url is provided")
         ELSE IF cpa_fetch_auth_files(w.listing).raised
         THEN cpa_fetch_auth_files(w.listing)
         ELSE IF w.records = "none"
         THEN LoadError("no credentials returned by CPA /v0/management/auth-files")
         ELSE Loaded("cpa")
    ELSE IF prepare_auth_dir(w).raised THEN prepare_auth_dir(w)
    ELSE IF w.records = "none" THEN LoadError("no json files found")
    ELSE prepare_auth_dir(w)

\* How many records a source holds.
RecordCounts(w) == IF w.records = "none" THEN {0} ELSE 1..MaxRecords

N == Len(inputs)

Units == 1..N

Init ==
    /\ pc = "start"
    /\ mode \in Modes
    /\ workers \in WorkerCounts
    /\ inputs = << >>
    /\ unit = << >>
    /\ future = << >>
    /\ results = << >>
    /\ delete_statuses = {}
    /\ run_dry_run = FALSE
    /\ interactive = FALSE
    /\ interactive_mode = "none"
    /\ deleted_files = << >>
    /\ backend = {}
    /\ calls = << >>
    /\ git_calls = << >>
    /\ answers = << >>
    /\ source = NoSource
    /\ fnIn = Idle
    /\ fnOut = Idle

(***************************************************************************)
(* run_once, lines 939-958: load the records and start run_checks or       *)
(* run_checks_cpa, which submits every unit to the pool.                   *)
(***************************************************************************)
\* What the future of a unit holds before the unit is done.
Pending == [raised |-> FALSE, result |-> NoResult, calls |-> 0]

Submit(records, present) ==
    /\ inputs' = records
    /\ unit' = [i \in 1..Len(records) |-> "queued"]
    /\ future' = [i \in 1..Len(records) |-> Pending]
    /\ results' = << >>
    /\ backend' = present
    /\ pc' = "run_checks"

\* collect_auth_files: the *.json files of the directory, sorted.
LoadLocal ==
    /\ pc = "start"
    /\ mode \in {"local", "repo"}
    /\ \E w \in SourceWorlds :
          /\ ModeOf(w) = mode
          /\ ~LoadSource(w).raised
          /\ source' = w
          /\ \E n \in RecordCounts(w) :
             \E content \in [1..n -> RunContents] :
                Submit([i \in 1..n |-> File(NameOrder[i + 1], content[i].c, content[i].meta)],
                       {PathOf(NameOrder[i + 1]) : i \in 1..n})
    /\ UNCHANGED << mode, workers, planVars, fnIn, fnOut >>

\* cpa_fetch_auth_files: the files list, as the management API sent it.
LoadCpa ==
    /\ pc = "start"
    /\ mode = "cpa"
    /\ \E w \in SourceWorlds :
          /\ ModeOf(w) = mode
          /\ ~LoadSource(w).raised
          /\ source' = w
          /\ \E n \in RecordCounts(w) :
             \E entries \in [1..n -> RunEntries] :
                Submit(entries,
                       {entries[i].name : i \in {j \in 1..n : entries[j].obj}} \ {""})
    /\ UNCHANGED << mode, workers, planVars, fnIn, fnOut >>

\* The source cannot be loaded, or holds no record: run_once raises.
LoadFails ==
    /\ pc = "start"
    /\ \E w \in SourceWorlds :
          /\ ModeOf(w) = mode
          /\ LoadSource(w).raised
          /\ source' = w
    /\ pc' = "raised"
    /\ UNCHANGED << mode, workers, inputs, poolVars, planVars, backend, fnIn, fnOut >>

(***************************************************************************)
(* The pool: at most max(1, workers) units run at a time; a free worker    *)
(* takes the oldest queued unit.                                           *)
(***************************************************************************)
Running == {i \in Units : unit[i] = "running"}

UnitStart(i) ==
    /\ pc \in {"run_checks", "run_checks_exit"}
    /\ unit[i] = "queued"
    /\ \A j \in 1..(i - 1) : unit[j] # "queued"
    /\ Cardinality(Running) < PoolSize(workers)
    /\ unit' = [unit EXCEPT ![i] = "running"]
    /\ UNCHANGED << pc, mode, workers, source, inputs, future, results, planVars, backend,
                    fnIn, fnOut >>

UnitOutcomes(i) ==
    IF mode = "cpa"
    THEN {cpa_check_entry(inputs[i], reply) : reply \in RunApiReplies}
    ELSE {check_credential(inputs[i], RunNow, reply) : reply \in RunReplies}

UnitFinish(i) ==
    /\ pc \in {"run_checks", "run_checks_exit"}
    /\ unit[i] = "running"
    /\ \E outcome \in UnitOutcomes(i) :
          future' = [future EXCEPT ![i] = outcome]
    /\ unit' = [unit EXCEPT ![i] = "done"]
    /\ UNCHANGED << pc, mode, workers, source, inputs, results, planVars, backend, fnIn, fnOut >>

(***************************************************************************)
(* run_checks / run_checks_cpa: the main thread takes the futures as they  *)
(* complete; future.result() returns the result or re-raises.              *)
(***************************************************************************)
Taken == {results[k].idx : k \in 1..Len(results)}

Item(i, res) == [idx |-> i, res |-> res]

Collect(i) ==
    /\ pc = "run_checks"
    /\ unit[i] = "done"
    /\ i \notin Taken
    /\ IF future[i].raised
       THEN /\ pc' = "run_checks_exit"
            /\ UNCHANGED results
       ELSE /\ results' = Append(results, Item(i, future[i].result))
            /\ UNCHANGED pc
    /\ UNCHANGED << mode, workers, source, inputs, unit, future, planVars, backend, fnIn, fnOut >>

\* Every future was taken: the with block ends and the sorted list is returned.
ReturnSorted ==
    /\ pc = "run_checks"
    /\ Taken = Units
    /\ results' = SortByFile(results)
    /\ pc' = "plan"
    /\ UNCHANGED << mode, workers, source, inputs, unit, future, planVars, backend, fnIn, fnOut >>

\* Variant: the exception leaves run_checks without the pool being waited for.
ChecksRaiseWithoutWaiting ==
    /\ pc = "run_checks_exit"
    /\ pc' = "raised"
    /\ UNCHANGED << mode, workers, source, inputs, poolVars, planVars, backend, fnIn, fnOut >>

\* An exception leaves the with block: shutdown(wait=True) lets every unit
\* finish, then run_checks and run_once raise.
ChecksRaise ==
    /\ pc = "run_checks_exit"
    /\ \A i \in Units : unit[i] = "done"
    /\ pc' = "raised"
    /\ UNCHANGED << mode, workers, source, inputs, poolVars, planVars, backend, fnIn, fnOut >>

(***************************************************************************)
(* run_once, lines 960-1043: the deletion plan, the confirmation prompts,  *)
(* the deletion passes and the hand-off to git.                            *)
(***************************************************************************)
StatusesIn(items) == {items[k].res.status : k \in 1..Len(items)}

\* interactive_delete_plan: the statuses picked (among those present) and the
\* way to run the deletion; nothing picked, or "4", gives ([], "none").
InteractivePlans ==
    {[statuses |-> {}, mode |-> "none"]}
    \cup { [statuses |-> s, mode |-> m] :
             s \in {ds \cap StatusesIn(results) : ds \in DeleteStatusSets} \ {{}},
             m \in {"dry", "apply", "dry_then_apply"} }

\* Another process may remove a credential file of a local directory between
\* the checks and the deletion (a file that goes earlier is read as invalid).
FileVanishes ==
    /\ pc = "plan"
    /\ mode = "local"
    /\ \E p \in backend : backend' = backend \ {p}
    /\ UNCHANGED << pc, mode, workers, source, inputs, poolVars, planVars, fnIn, fnOut >>

\* Lines 960-979 with the flags: with no status to delete the run goes to its
\* report (lines 1045-1059).
PlanFromFlags ==
    /\ pc = "plan"
    /\ \E ds \in DeleteStatusSets, dry \in BOOLEAN :
          /\ delete_statuses' = ds
          /\ run_dry_run' = dry
          /\ pc' = IF ds # {} THEN "confirm" ELSE "done"
    /\ interactive' = FALSE
    /\ interactive_mode' = "none"
    /\ UNCHANGED << mode, workers, source, inputs, poolVars, deleted_files, backend, calls,
                    git_calls, answers, fnIn, fnOut >>

\* Lines 960-979 with --interactive.
PlanInteractive ==
    /\ pc = "plan"
    /\ \E plan \in InteractivePlans :
          /\ delete_statuses' = plan.statuses
          /\ interactive_mode' = plan.mode
          /\ run_dry_run' = (plan.mode \in {"dry", "none"})
          /\ pc' = IF plan.statuses # {} THEN "confirm" ELSE "done"
    /\ interactive' = TRUE
    /\ UNCHANGED << mode, workers, source, inputs, poolVars, deleted_files, backend, calls,
                    git_calls, answers, fnIn, fnOut >>

\* Line 988: the prompt of the interactive mode; flags need no confirmation.
Answer(prompt, yes) == [prompt |-> prompt, yes |-> yes]

\* Variant: the deletion goes on without the prompt being asked.
ConfirmUnasked ==
    /\ pc = "confirm"
    /\ pc' = IF interactive_mode = "dry_then_apply" THEN "dry_pass" ELSE "delete"
    /\ UNCHANGED << mode, workers, source, inputs, poolVars, planVars, backend, fnIn, fnOut >>

Confirm ==
    /\ pc = "confirm"
    /\ \E yes \in (IF interactive THEN BOOLEAN ELSE {TRUE}) :
          /\ pc' = IF ~yes THEN "done"
                   ELSE IF interactive_mode = "dry_then_apply" THEN "dry_pass"
                   ELSE "delete"
          /\ answers' = IF interactive THEN Append(answers, Answer("confirm", yes))
                        ELSE answers
    /\ UNCHANGED << mode, workers, source, inputs, poolVars, delete_statuses, run_dry_run,
                    interactive, interactive_mode, deleted_files, calls, git_calls,
                    backend, fnIn, fnOut >>

Call(fn, dry_run, before, st) ==
    [fn |-> fn, dry_run |-> dry_run, statuses |-> delete_statuses, before |-> before,
     after |-> st.backend, returned |-> st.deleted, issued |-> st.issued,
     raised |-> st.raised]

\* The answers to the DELETE requests of one call: at most one is not a 200.
DeleteReplies(n) ==
    {[k \in 1..n |-> "ok"]}
    \cup { [k \in 1..n |-> IF k = bad THEN answer ELSE "ok"] :
             bad \in 1..n, answer \in {"error", "fail"} }

\* Variant: the hand-off to git does not look at the mode.
AfterDeletionAnyMode(dry, deleted) ==
    IF ~dry /\ deleted # << >> THEN "git" ELSE "done"

\* Line 1028: git only in repo mode, after a real pass that deleted something;
\* otherwise the report is built (lines 1045-1059).
AfterDeletion(dry, deleted) ==
    IF mode = "repo" /\ ~dry /\ deleted # << >> THEN "git" ELSE "done"

\* The outcomes one call of the executor of the mode can have.
DeleteOutcomes(dry_run) ==
    IF mode = "cpa"
    THEN LET n == Len(TargetsOf(results, 1, delete_statuses, TRUE)) IN
         { Call("delete_credentials_cpa", dry_run, backend,
                delete_credentials_cpa(results, delete_statuses, dry_run, backend, replies)) :
             replies \in IF dry_run THEN {[k \in 1..n |-> "ok"]}
                         ELSE DeleteReplies(n) }
    ELSE { Call("delete_credentials", dry_run, backend,
                delete_credentials(results, delete_statuses, dry_run, backend, unlink_fails)) :
             unlink_fails \in IF dry_run THEN {{}}
                              ELSE {{}} \cup {{p} : p \in backend} }

\* Lines 991-999: the dry-run pass of "dry_then_apply"; its list is dropped.
DryPass ==
    /\ pc = "dry_pass"
    /\ \E call \in DeleteOutcomes(TRUE) :
          /\ calls' = Append(calls, call)
          /\ backend' = call.after
    /\ pc' = "confirm_real"
    /\ UNCHANGED << mode, workers, source, inputs, poolVars, delete_statuses, run_dry_run,
                    interactive, interactive_mode, deleted_files, git_calls,
                    answers,                    fnIn, fnOut >>

\* Line 1000: the second prompt.
ConfirmReal ==
    /\ pc = "confirm_real"
    /\ \E yes \in BOOLEAN :
          /\ pc' = IF yes THEN "real_pass" ELSE AfterDeletion(run_dry_run, deleted_files)
          /\ answers' = Append(answers, Answer("confirm_real", yes))
    /\ UNCHANGED << mode, workers, source, inputs, poolVars, delete_statuses, run_dry_run,
                    interactive, interactive_mode, deleted_files, calls, git_calls,
                    backend, fnIn, fnOut >>

\* Lines 1003-1026: the pass whose list becomes deleted_files.
DeletePass ==
    /\ pc \in {"real_pass", "delete"}
    /\ \E call \in DeleteOutcomes(IF pc = "real_pass" THEN FALSE ELSE run_dry_run) :
          /\ calls' = Append(calls, call)
          /\ backend' = call.after
          /\ IF call.raised
             THEN /\ pc' = "raised"
                  /\ UNCHANGED << deleted_files, run_dry_run >>
             ELSE /\ deleted_files' = call.returned
                  /\ run_dry_run' = IF pc = "real_pass" THEN FALSE ELSE run_dry_run
                  /\ pc' = AfterDeletion(run_dry_run', call.returned)
    /\ UNCHANGED << mode, workers, source, inputs, poolVars, delete_statuses, interactive,
                    interactive_mode, git_calls, answers, fnIn, fnOut >>

(***************************************************************************)
(* git_commit_and_push.  git is what each subprocess does: "ok" or "fail"  *)
(* (run_command raises CalledProcessError), and whether the tree is dirty. *)
(***************************************************************************)
GitOutcome(raised, committed, pushed, commit_id) ==
    [raised |-> raised, committed |-> committed, pushed |-> pushed,
     commit_id |-> commit_id]

\* Variant: the push does not depend on the commit.
git_commit_and_push_push_alone(do_commit, do_push, git) ==
    IF git.add = "fail" \/ git.status = "fail"
    THEN GitOutcome(TRUE, FALSE, FALSE, "")
    ELSE IF ~git.dirty
    THEN GitOutcome(FALSE, FALSE, FALSE, "")
    ELSE IF ~do_commit
    THEN GitOutcome(FALSE, FALSE, do_push /\ git.push = "ok", "")
    ELSE IF git.commit = "fail" \/ git.rev_parse = "fail"
    THEN GitOutcome(TRUE, FALSE, FALSE, "")
    ELSE IF ~do_push
    THEN GitOutcome(FALSE, TRUE, FALSE, "HEAD")
    ELSE IF git.push = "fail"
    THEN GitOutcome(TRUE, TRUE, FALSE, "HEAD")
    ELSE GitOutcome(FALSE, TRUE, TRUE, "HEAD")

git_commit_and_push(do_commit, do_push, git) ==
    IF git.add = "fail" \/ git.status = "fail"
    THEN GitOutcome(TRUE, FALSE, FALSE, "")
    ELSE IF ~git.dirty
    THEN GitOutcome(FALSE, FALSE, FALSE, "")
    ELSE IF ~do_commit
    THEN GitOutcome(FALSE, FALSE, FALSE, "")
    ELSE IF git.commit = "fail" \/ git.rev_parse = "fail"
    THEN GitOutcome(TRUE, FALSE, FALSE, "")
    ELSE IF ~do_push
    THEN GitOutcome(FALSE, TRUE, FALSE, "HEAD")
    ELSE IF git.push = "fail"
    THEN GitOutcome(TRUE, TRUE, FALSE, "HEAD")
    ELSE GitOutcome(FALSE, TRUE, TRUE, "HEAD")

\* The git commands git_commit_and_push runs, in order, up to the one that
\* fails.
GitCommands(do_commit, do_push, git) ==
    IF git.add = "fail" THEN << "add" >>
    ELSE IF git.status = "fail" THEN << "add", "status" >>
    ELSE IF ~git.dirty \/ ~do_commit THEN << "add", "status" >>
    ELSE IF git.commit = "fail" THEN << "add", "status", "commit" >>
    ELSE IF git.rev_parse = "fail" \/ ~do_push
    THEN << "add", "status", "commit", "rev-parse" >>
    ELSE << "add", "status", "commit", "rev-parse", "push" >>

GitWorlds ==
    [add : {"ok", "fail"}, status : {"ok"}, dirty : BOOLEAN, commit : {"ok", "fail"},
     rev_parse : {"ok"}, push : {"ok", "fail"}]

\* Lines 1029-1043: args.git_commit and args.git_push come from the flags or,
\* in interactive mode, from the prompts (git_push only if git_commit).
GitCall(do_commit, do_push, git) ==
    [do_commit |-> do_commit, do_push |-> do_push, dirty |-> git.dirty,
     commands |-> GitCommands(do_commit, do_push, git),
     outcome |-> git_commit_and_push(do_commit, do_push, git)]

GitSync ==
    /\ pc = "git"
    /\ \E do_commit \in BOOLEAN, do_push \in BOOLEAN, git \in GitWorlds :
          /\ interactive => (do_push => do_commit)
          /\ git_calls' = Append(git_calls, GitCall(do_commit, do_push, git))
          /\ pc' = IF git_commit_and_push(do_commit, do_push, git).raised
                   THEN "raised" ELSE "done"
    /\ UNCHANGED << mode, workers, source, inputs, poolVars, delete_statuses, run_dry_run,
                    interactive, interactive_mode, deleted_files, calls, backend,
                    answers, fnIn, fnOut >>

Next ==
    \/ LoadLocal
    \/ LoadCpa
    \/ LoadFails
    \/ \E i \in Units : UnitStart(i)
    \/ \E i \in Units : UnitFinish(i)
    \/ \E i \in Units : Collect(i)
    \/ ReturnSorted
    \/ ChecksRaise
    \/ FileVanishes
    \/ PlanFromFlags
    \/ PlanInteractive
    \/ Confirm
    \/ DryPass
    \/ ConfirmReal
    \/ DeletePass
    \/ GitSync

Spec == Init /\ [][Next]_vars

(***************************************************************************)
(* The functions on their own.  In these specifications the run stands     *)
(* still (pc = "fn"); fnIn is drawn by Init and each action applies one    *)
(* function to it.                                                         *)
(***************************************************************************)
RunIdle ==
    /\ pc = "fn"
    /\ mode = "local"
    /\ workers = 0
    /\ inputs = << >>
    /\ unit = << >>
    /\ future = << >>
    /\ results = << >>
    /\ delete_statuses = {}
    /\ run_dry_run = FALSE
    /\ interactive = FALSE
    /\ interactive_mode = "none"
    /\ deleted_files = << >>
    /\ backend = {}
    /\ calls = << >>
    /\ git_calls = << >>
    /\ answers = << >>
    /\ source = NoSource

Apply(input_kind, out) ==
    /\ pc = "fn"
    /\ fnIn.kind = input_kind
    /\ fnOut = Idle
    /\ fnOut' = out
    /\ UNCHANGED << runVars, fnIn >>

\* A credential that has a token, for the probes of SpecClassify.
ProbedMetadata == Metadata("codex", TokOpaque, ExpNone)

InitClassify ==
    /\ RunIdle
    /\ fnIn \in [kind : {"response"}, code : StatusCodes, body : Bodies]
    /\ fnOut = Idle

ApplyCheckCodex ==
    Apply("response",
          [fn |-> "check_codex",
           status |-> check_codex(ProbedMetadata, HttpReply(fnIn.code, fnIn.body)).status])

ApplyClassifyCodex ==
    Apply("response",
          [fn |-> "classify_codex_response",
           status |-> classify_codex_response(fnIn.code, fnIn.body).status])

ApplyCheckGoogle ==
    Apply("response",
          [fn |-> "check_google_oauth",
           status |-> check_google_oauth(ProbedMetadata, HttpReply(fnIn.code, fnIn.body)).status])

ApplyClassifyGoogle ==
    Apply("response",
          [fn |-> "classify_google_response",
           status |-> classify_google_response(fnIn.code, fnIn.body).status])

NextClassify ==
    \/ ApplyCheckCodex
    \/ ApplyClassifyCodex
    \/ ApplyCheckGoogle
    \/ ApplyClassifyGoogle

SpecClassify == InitClassify /\ [][NextClassify]_vars

\* The access_token values of the offline analysis.
OfflineTokens ==
    { TokNone, TokEmpty, TokBlank, TokInt(7), TokOpaque,
      Token("str", 0, 1, NoPayload), Token("str", 0, 3, NoPayload),
      TokJwt(BadPayload("bad_base64")), TokJwt(BadPayload("bad_utf8")),
      TokJwt(BadPayload("bad_json")),
      TokJwt(JsonPayload("list", "none", 0)), TokJwt(JsonPayload("null", "none", 0)),
      TokJwt(JsonPayload("obj", "none", 0)), TokJwt(JsonPayload("obj", "str", 1)),
      TokJwt(JsonPayload("obj", "float", 1)), TokJwt(JsonPayload("obj", "bool", 1)),
      TokJwt(JsonPayload("obj", "bool", 0)), TokJwt(JsonPayload("obj", "bigint", 1)) }
    \cup { TokJwtExp(e) : e \in (0 - 1)..(MaxTime + 1) }

\* The values of the "expired" member.
OfflineExpiries ==
    { ExpNone, Expiry("nonstr", 0, "naive", 0), Expiry("blank", 0, "naive", 0),
      Expiry("malformed", 0, "naive", 0) }
    \cup { ExpIso(t, tz, 0) : t \in 0..(MaxTime + 1), tz \in {"naive", "Z"} }
    \cup { ExpIso(t, "offset", off) : t \in 0..(MaxTime + 1), off \in {0 - 1, 1} }

InitOffline ==
    /\ RunIdle
    /\ fnIn \in [kind : {"record"},
                 meta : {Metadata("codex", tok, exp) :
                           tok \in OfflineTokens, exp \in OfflineExpiries},
                 now : 1..MaxTime]
    /\ fnOut = Idle

ApplyOfflineExpired ==
    Apply("record",
          [fn |-> "offline_expired", out |-> offline_expired(fnIn.meta, fnIn.now)])

NextOffline == ApplyOfflineExpired

SpecOffline == InitOffline /\ [][NextOffline]_vars

\* The inputs of one unit of work.
UnitTypes ==
    {"", "  ", "codex", " Codex ", "gemini", "GEMINI", "gemini-cli", "antigravity", "other"}

UnitTokens ==
    { TokNone, TokEmpty, TokBlank, TokInt(0), TokInt(7), TokOpaque,
      TokJwtExp(1), TokJwtExp(Future) }

UnitExpiries ==
    { ExpNone, Expiry("malformed", 0, "naive", 0), ExpIso(1, "Z", 0),
      ExpIso(Future, "naive", 0) }

UnitFiles ==
    { File("a.json", "invalid", NoMeta), File("a.json", "nonobject", NoMeta) }
    \cup { File("a.json", "object", Metadata(ty, tok, exp)) :
             ty \in UnitTypes, tok \in UnitTokens, exp \in UnitExpiries }

UnitReplies ==
    { TransportFailure }
    \cup { HttpReply(code, body) :
             code \in {200, 400, 401, 403, 500},
             body \in {BodyEmpty, BodyTokenInvalidated, BodyInvalidToken} }

UnitEntries ==
    { Entry(FALSE, "", "", "", "", "") }
    \cup { Entry(TRUE, name, id, provider, type, auth_index) :
             name \in {"", "a.json"}, id \in {"", "b.json"},
             provider \in {"", "codex", "gemini", "other"}, type \in {"", "codex"},
             auth_index \in {"", "7"} }

UnitApiReplies ==
    { ApiCallReply("fail", 0, BodyEmpty, FALSE, 0, BodyEmpty),
      ApiCallReply("http", 200, BodyOk, FALSE, 0, BodyEmpty) }
    \cup { ApiCallReply("http", code, body, FALSE, 0, BodyEmpty) :
             code \in {401, 403, 429, 500}, body \in {BodyEmpty, BodyUnauthorized} }
    \cup { ApiCallReply("http", 200, BodyOk, TRUE, code, body) :
             code \in {0, 200, 400, 401, 403, 500},
             body \in {BodyEmpty, BodyTokenInvalidated, BodyInvalidToken} }

InitUnit ==
    /\ RunIdle
    /\ \/ fnIn \in [kind : {"file"}, file : UnitFiles, now : {RunNow}, reply : UnitReplies]
       \/ fnIn \in [kind : {"entry"}, entry : UnitEntries, reply : UnitApiReplies]
    /\ fnOut = Idle

ApplyCheckCredential ==
    Apply("file",
          [fn |-> "check_credential",
           out |-> check_credential(fnIn.file, fnIn.now, fnIn.reply)])

ApplyCpaCheckEntry ==
    Apply("entry",
          [fn |-> "cpa_check_entry", out |-> cpa_check_entry(fnIn.entry, fnIn.reply)])

NextUnit ==
    \/ ApplyCheckCredential
    \/ ApplyCpaCheckEntry

SpecUnit == InitUnit /\ [][NextUnit]_vars

(***************************************************************************)
(* Properties.                                                             *)
(***************************************************************************)
\* run_checks / run_checks_cpa has returned its list to run_once.
ChecksReturned ==
    pc \in {"plan", "confirm", "dry_pass", "confirm_real", "real_pass", "delete",
            "git", "done"}

\* The results in submission order, as if every unit had completed in turn.
Submitted == [i \in Units |-> Item(i, future[i].result)]

ResultsOf(items) == [k \in 1..Len(items) |-> items[k].res]

\* C1: per-record isolation.  Every unit of work ends with a CheckResult (an
\* exception inside it becomes a check_error result of that record), and no
\* exception leaves run_checks / run_checks_cpa.
C1_PerRecordIsolation ==
    /\ \A i \in Units : unit[i] = "done" => ~future[i].raised
    /\ pc # "run_checks_exit"

\* C2: cardinality.  Once run_checks / run_checks_cpa has returned, its list
\* holds exactly one result per submitted record: as long as the input, every
\* unit's result present once, for every worker count and completion order.
C2_Cardinality ==
    ChecksReturned =>
        /\ Len(results) = Len(inputs)
        /\ \A i \in Units : Cardinality({k \in 1..Len(results) : results[k].idx = i}) = 1
        /\ \A k \in 1..Len(results) :
              /\ results[k].idx \in Units
              /\ ~future[results[k].idx].raised
              /\ results[k].res = future[results[k].idx].result

\* Two entries of the same name, taken in the order opposite to submission,
\* with the worker count clamped to 1: both are in the returned list.
C2_Witness ==
    /\ pc = "plan"
    /\ mode = "cpa"
    /\ workers = 0
    /\ Len(inputs) = 2
    /\ results[1].res.file = results[2].res.file
    /\ results[1].idx = 2

\* C3: deterministic ordering.  The returned list is sorted ascending by
\* identifier and is the same sequence whatever the completion order was: it
\* equals the list obtained when the units complete in submission order.
C3_DeterministicOrder ==
    ChecksReturned =>
        /\ \A k \in 1..(Len(results) - 1) :
              Rank(results[k].res.file) <= Rank(results[k + 1].res.file)
        /\ ResultsOf(results) = ResultsOf(SortByFile(Submitted))

\* The record of fnIn has no token: access_token absent, null or blank.
NoToken == fnIn.file.meta.access_token.t \in {"none", "empty", "blank"}

CheckedObject ==
    /\ fnOut.fn = "check_credential"
    /\ fnIn.file.c = "object"

HasStrategy(provider) == provider = "codex" \/ provider \in GoogleFamily

ProbeOf(provider) ==
    IF provider = "codex"
    THEN check_codex(fnIn.file.meta, fnIn.reply)
    ELSE check_google_oauth(fnIn.file.meta, fnIn.reply)

\* C5: offline override.  No result of check_credential is active or unknown
\* when the offline analysis found the record expired: after a probe that
\* yields active or unknown, and for a provider with no probe strategy, the
\* result is expired_by_time with the offline reason; with no expiry found a
\* provider without strategy ends as unknown.
C5_OfflineOverride ==
    (CheckedObject /\ ~fnOut.out.raised) =>
        LET res == fnOut.out.result
            offline == offline_expired(fnIn.file.meta, fnIn.now)
            overridden == /\ res.status = "expired_by_time"
                          /\ res.reason = offline.reason
        IN /\ offline.expired => res.status \notin {"active", "unknown"}
           /\ ( /\ offline.expired
                /\ HasStrategy(res.provider)
                /\ ~ProbeOf(res.provider).raised
                /\ ProbeOf(res.provider).status \in {"active", "unknown"} ) => overridden
           /\ (offline.expired /\ ~HasStrategy(res.provider)) => overridden
           /\ (~offline.expired /\ ~HasStrategy(res.provider)) => res.status = "unknown"

\* A codex token that the provider accepts but whose exp claim is past.
C5_Witness ==
    /\ CheckedObject
    /\ fnIn.file.meta.type = "codex"
    /\ fnIn.file.meta.access_token = TokJwtExp(1)
    /\ fnIn.reply = HttpReply(200, BodyEmpty)
    /\ fnOut.out.result.status = "expired_by_time"
    /\ fnOut.out.result.http_status = Some(200)

\* The body mentions `needle`, whatever the case of its letters.
Mentions(body, needle) == Contains(Lower(body), needle)

\* The table of C6, rows in priority order.
CodexTable(code, body) ==
    IF code = 401 /\ ( Mentions(body, TOKEN_INVALIDATED)
                       \/ Mentions(body, AUTH_TOKEN_INVALIDATED) ) THEN "invalidated"
    ELSE IF code = 401 /\ Mentions(body, DEACTIVATED) THEN "deactivated"
    ELSE IF code = 401 THEN "unauthorized"
    ELSE IF code \in {200, 201, 400, 402, 403, 404, 409, 422, 429} THEN "active"
    ELSE "unknown"

\* C6: the codex classification is a total function of (status, body) with a
\* fixed priority, the same in check_codex and classify_codex_response:
\* 401 mentioning invalidation -> invalidated; else 401 mentioning
\* deactivation -> deactivated; any other 401 -> unauthorized; a status of
\* the accepted set -> active whatever the body; anything else -> unknown.
C6_CodexClassification ==
    fnOut.fn \in {"check_codex", "classify_codex_response"} =>
        fnOut.status = CodexTable(fnIn.code, fnIn.body)

\* A 401 whose body mentions both deactivation and invalidation.
C6_Witness ==
    /\ fnOut.fn = "classify_codex_response"
    /\ fnIn.code = 401
    /\ fnIn.body = BodyBoth
    /\ fnOut.status = "invalidated"

\* The literal table of C7.
GoogleTableHolds(code, body, status) ==
    /\ code = 200 => status = "active"
    /\ (code = 400 /\ Mentions(body, INVALID_TOKEN)) => status = "invalidated"
    /\ code = 401 => status = "unauthorized"
    /\ code = 500 => status = "unknown"

DirectGoogle(code, body) ==
    check_google_oauth(ProbedMetadata, HttpReply(code, body)).status

\* C7 as stated: check_google_oauth and classify_google_response both follow
\* the literal table, and the proxied one differs from the direct one on HTTP
\* 403 only, which it maps to active.
C7_GoogleSameBut403 ==
    /\ fnOut.fn \in {"check_google_oauth", "classify_google_response"} =>
          GoogleTableHolds(fnIn.code, fnIn.body, fnOut.status)
    /\ fnOut.fn = "classify_google_response" =>
          IF fnIn.code = 403
          THEN fnOut.status = "active" /\ DirectGoogle(fnIn.code, fnIn.body) # "active"
          ELSE fnOut.status = DirectGoogle(fnIn.code, fnIn.body)

\* C7 amended: check_google_oauth follows the literal table (200 -> active;
\* 400 with a body mentioning "invalid", hence "invalid_token" -> invalidated;
\* 401 -> unauthorized; anything else, 500 and 403 included -> unknown).
\* classify_google_response maps 200 -> active; 401 with a body mentioning
\* "invalid" or "unauthorized" -> invalidated; 403 -> active; any other 401 ->
\* unauthorized; anything else, 500 and 400 with "invalid_token" included ->
\* unknown.  The two differ on exactly three classes of input: 403; 400 with a
\* body mentioning "invalid"; 401 with a body mentioning "invalid" or
\* "unauthorized".
C7_GoogleClassification ==
    LET code == fnIn.code
        body == fnIn.body
        direct ==
            IF code = 200 THEN "active"
            ELSE IF code = 400 /\ Mentions(body, INVALID) THEN "invalidated"
            ELSE IF code = 401 THEN "unauthorized"
            ELSE "unknown"
        proxied ==
            IF code = 200 THEN "active"
            ELSE IF code = 401 /\ (Mentions(body, INVALID) \/ Mentions(body, UNAUTHORIZED))
                 THEN "invalidated"
            ELSE IF code = 403 THEN "active"
            ELSE IF code = 401 THEN "unauthorized"
            ELSE "unknown"
        differ ==
            \/ code = 403
            \/ code = 400 /\ Mentions(body, INVALID)
            \/ code = 401 /\ (Mentions(body, INVALID) \/ Mentions(body, UNAUTHORIZED))
    IN /\ fnOut.fn = "check_google_oauth" =>
             /\ fnOut.status = direct
             /\ GoogleTableHolds(code, body, fnOut.status)
       /\ fnOut.fn = "classify_google_response" =>
             /\ fnOut.status = proxied
             /\ (fnOut.status # DirectGoogle(code, body)) <=> differ

\* The proxied classifier on a 403, which the direct one leaves unknown.
C7_Witness ==
    /\ fnOut.fn = "classify_google_response"
    /\ fnIn.code = 403
    /\ fnOut.status = "active"
    /\ DirectGoogle(fnIn.code, fnIn.body) = "unknown"

\* The exp claim a token carries: three segments, the middle one decoding to
\* a JSON object whose "exp" is an integer > 0 that is a valid Unix time.
TokenClaim(token) ==
    IF /\ token.t = "str"
       /\ token.dots = 2
       /\ token.payload.enc = "json"
       /\ token.payload.j = "obj"
       /\ token.payload.ety \in {"int", "bool"}
       /\ token.payload.ev > 0
    THEN Some(token.payload.ev)
    ELSE None

\* The instant the explicit expiry field names, when it parses.
ExplicitInstant(value) ==
    IF value.t = "iso"
    THEN Some(value.local - (IF value.tz = "offset" THEN value.off ELSE 0))
    ELSE None

\* C8: offline precedence.  offline_expired reports expired with the token
\* reason whenever the token's exp claim is <= now, whatever the explicit
\* field is; otherwise expired with the field reason iff the explicit expiry
\* parses and is <= now; with neither evidence (decode and parse failures
\* included) it reports not expired.  It returns a value for every record.
C8_OfflinePrecedence ==
    fnOut.fn = "offline_expired" =>
        LET claim == TokenClaim(fnIn.meta.access_token)
            explicit == ExplicitInstant(fnIn.meta.expired)
            out == fnOut.out
        IN IF claim # None /\ claim[1] <= fnIn.now
           THEN out.expired /\ out.reason = "access_token jwt exp is in the past"
           ELSE IF explicit # None /\ explicit[1] <= fnIn.now
           THEN out.expired /\ out.reason = "expired field is in the past"
           ELSE ~out.expired /\ out.reason = ""

\* A token whose claim is past while the explicit field is past as well: the
\* token reason is the one reported.
C8_Witness ==
    /\ fnOut.fn = "offline_expired"
    /\ fnIn.meta.access_token = TokJwtExp(1)
    /\ fnIn.meta.expired = ExpIso(1, "offset", 1)
    /\ fnOut.out.expired
    /\ fnOut.out.reason = "access_token jwt exp is in the past"

\* The identifier a deletion executor addresses result k by.
TargetId(k) == IF mode = "cpa" THEN results[k].res.file ELSE results[k].res.path

Positions == 1..Len(results)

Occurrences(list, id) == Cardinality({j \in 1..Len(list) : list[j] = id})

\* The identifiers call c listed (acted upon) and those it unlinked or sent a
\* DELETE for.
Listed(c) == {c.returned[j] : j \in 1..Len(c.returned)}

Issued(c) == {c.issued[j] : j \in 1..Len(c.issued)}

\* C9 as stated: a result is acted upon by a deletion call iff its status is
\* in the target set; results of another status are never unlinked nor sent a
\* DELETE; with an empty target set no deletion function is called.
C9_TargetsIffStatus ==
    /\ \A n \in 1..Len(calls) :
          LET c == calls[n] IN
          /\ ~c.raised =>
                \A k \in Positions :
                    (TargetId(k) \in Listed(c)) <=> (results[k].res.status \in c.statuses)
          /\ \A k \in Positions :
                TargetId(k) \in Issued(c) => results[k].res.status \in c.statuses
    /\ delete_statuses = {} => calls = << >>

\* Result k is one the call c has to act upon.
Qualifies(c, k) ==
    /\ results[k].res.status \in c.statuses
    /\ IF mode = "cpa" THEN results[k].res.file # ""
       ELSE results[k].res.path \in c.before

\* C9 amended: a deletion call that returns has acted upon (listed, and unless
\* dry-run unlinked or sent a DELETE for) exactly the results whose status is
\* in the target set and which, in local and repo mode, still have their file
\* on disk or, in CPA mode, have a non-empty identifier -- once per such
\* result; no call, even one that raises, unlinks or sends a DELETE for an
\* identifier that no such result carries; with an empty target set no
\* deletion function is called.
C9_TargetsExact ==
    /\ \A n \in 1..Len(calls) :
          LET c == calls[n] IN
          /\ c.statuses # {}
          /\ ~c.raised =>
                /\ \A id \in Listed(c) \cup {TargetId(k) : k \in Positions} :
                      Occurrences(c.returned, id) =
                          Cardinality({k \in Positions :
                                          Qualifies(c, k) /\ TargetId(k) = id})
                /\ ~c.dry_run => c.issued = c.returned
          /\ \A id \in Issued(c) :
                \E k \in Positions : Qualifies(c, k) /\ TargetId(k) = id
    /\ delete_statuses = {} => calls = << >>

\* A real deletion in CPA mode that acted upon a target and left alone both a
\* result of another status and a nameless result of a targeted status.
C9_Witness ==
    /\ mode = "cpa"
    /\ Len(calls) = 1
    /\ ~calls[1].dry_run
    /\ ~calls[1].raised
    /\ Len(calls[1].returned) = 1
    /\ calls[1].issued = calls[1].returned
    /\ \E k \in Positions :
          results[k].res.status \in calls[1].statuses /\ results[k].res.file = ""

\* What the executor of the mode gives when run for real from the state call
\* c started from, for each way its requests can be answered.
RealRuns(c) ==
    IF mode = "cpa"
    THEN { delete_credentials_cpa(results, c.statuses, FALSE, c.before, replies) :
             replies \in DeleteReplies(Len(TargetsOf(results, 1, c.statuses, TRUE))) }
    ELSE { delete_credentials(results, c.statuses, FALSE, c.before, unlink_fails) :
             unlink_fails \in {{}} \cup {{p} : p \in c.before} }

\* The same call with dry_run=true, made again from the state c left.
DryAgain(c) ==
    IF mode = "cpa"
    THEN delete_credentials_cpa(results, c.statuses, TRUE, c.after,
                                [k \in 1..Len(results) |-> "ok"])
    ELSE delete_credentials(results, c.statuses, TRUE, c.after, {})

\* C10: dry-run.  A deletion call with dry_run=true returns, makes no mutating
\* backend call (no unlink, no DELETE) and leaves the backend as it was; its
\* list is the list a real run from the same state returns; and made again it
\* returns the same list and again changes nothing.
C10_DryRun ==
    \A n \in 1..Len(calls) :
        LET c == calls[n] IN
        c.dry_run =>
            /\ ~c.raised
            /\ c.issued = << >>
            /\ c.after = c.before
            /\ \A real \in RealRuns(c) : ~real.raised => real.deleted = c.returned
            /\ DryAgain(c).deleted = c.returned
            /\ DryAgain(c).backend = c.before
            /\ DryAgain(c).issued = << >>

\* The dry-run pass of "dry_then_apply" listed a target, and the real pass
\* that followed returned the same list.
C10_Witness ==
    /\ Len(calls) = 2
    /\ calls[1].dry_run
    /\ calls[1].returned # << >>
    /\ ~calls[2].dry_run
    /\ ~calls[2].raised
    /\ calls[2].returned = calls[1].returned
    /\ calls[2].after # calls[2].before

\* C11: partial-failure continuation.  A real (non-dry-run) deletion call
\* returns normally whatever happens to one target -- a non-200 answer to the
\* DELETE, a transport failure of the DELETE, an OSError of unlink -- and
\* every target of the call is attempted.
C11_PartialFailureContinues ==
    \A n \in 1..Len(calls) :
        LET c == calls[n] IN
        ~c.dry_run =>
            /\ ~c.raised
            /\ \A k \in Positions : Qualifies(c, k) => TargetId(k) \in Issued(c)

\* C12: confirmed-deleted set.  The list a real (non-dry-run) deletion call
\* returns, which run_once reports as deleted_files, holds only identifiers
\* the backend no longer has: a target whose deletion failed is not in it.
C12_ConfirmedDeleted ==
    /\ \A n \in 1..Len(calls) :
          LET c == calls[n] IN
          (~c.dry_run /\ ~c.raised) => Listed(c) \cap c.after = {}
    /\ (pc = "done" /\ ~run_dry_run) =>
          {deleted_files[j] : j \in 1..Len(deleted_files)} \cap backend = {}

\* The last call of a deletion executor.
LastCall == calls[Len(calls)]

\* C13: git hand-off gating.  git_commit_and_push is about to be invoked, or
\* was invoked, only in a run on a cloned repository whose last deletion pass
\* was a real one that returned, listed at least one file and removed at
\* least one; it is invoked at most once, and never in local or CPA mode,
\* after a dry-run, after a cancelled prompt or with an empty deleted list.
C13_GitGated ==
    /\ Len(git_calls) <= 1
    /\ (pc = "git" \/ git_calls # << >>) =>
          /\ mode = "repo"
          /\ source.repo_url
          /\ ~run_dry_run
          /\ calls # << >>
          /\ ~LastCall.dry_run
          /\ ~LastCall.raised
          /\ LastCall.returned # << >>
          /\ LastCall.after # LastCall.before
          /\ deleted_files = LastCall.returned

\* git was invoked after the real pass of an interactive "dry_then_apply".
C13_Witness ==
    /\ git_calls # << >>
    /\ interactive_mode = "dry_then_apply"
    /\ Len(calls) = 2
    /\ calls[1].dry_run

Ran(g, command) == \E j \in 1..Len(g.commands) : g.commands[j] = command

Before(g, first, second) ==
    \A j \in 1..Len(g.commands) :
        g.commands[j] = second => \E i \in 1..(j - 1) : g.commands[i] = first

\* C14: git sync ordering.  Every call of git_commit_and_push stages first;
\* it commits only after staging and reading the status, only if the tree is
\* dirty and a commit was requested; it pushes only if a push was requested
\* and the commit of this call was made; so an outcome it returns has pushed
\* only with committed, committed only with a commit id, and for a clean
\* tree committed = false, pushed = false and an empty commit id.
C14_GitOrdering ==
    \A n \in 1..Len(git_calls) :
        LET g == git_calls[n] IN
        /\ g.commands[1] = "add"
        /\ Ran(g, "commit") => (g.dirty /\ g.do_commit)
        /\ Before(g, "add", "status") /\ Before(g, "status", "commit")
        /\ Ran(g, "push") => (g.do_push /\ g.do_commit /\ g.dirty)
        /\ Before(g, "commit", "rev-parse") /\ Before(g, "rev-parse", "push")
        /\ g.outcome.committed => Ran(g, "rev-parse")
        /\ g.outcome.pushed => Ran(g, "push")
        /\ ~g.outcome.raised =>
              /\ g.outcome.pushed => g.outcome.committed
              /\ g.outcome.committed => g.outcome.commit_id # ""
              /\ g.outcome.committed = (g.dirty /\ g.do_commit)
              /\ g.outcome.pushed = (g.outcome.committed /\ g.do_push)
              /\ ~g.dirty => /\ ~g.outcome.committed
                             /\ ~g.outcome.pushed
                             /\ g.outcome.commit_id = ""

\* A call that committed and pushed, and the run ended.
C14_Witness ==
    /\ pc = "done"
    /\ Len(git_calls) = 1
    /\ git_calls[1].outcome.pushed
    /\ git_calls[1].commands = << "add", "status", "commit", "rev-parse", "push" >>

\* C15: phase separation.  run_checks / run_checks_cpa is left, by return or
\* by an exception, only when every submitted unit has finished; so whenever
\* a deletion executor or git has been called, or is about to be, no unit is
\* queued or running.
C15_PhaseSeparation ==
    /\ pc \notin {"start", "run_checks", "run_checks_exit"} =>
          \A i \in Units : unit[i] = "done"
    /\ (calls # << >> \/ git_calls # << >>) =>
          /\ \A i \in Units : unit[i] = "done"
          /\ Taken = Units

\* Two units ran side by side, one ended with check_error, and a real
\* deletion followed.
C15_Witness ==
    /\ workers = 2
    /\ N = 2
    /\ calls # << >>
    /\ ~calls[1].dry_run
    /\ calls[1].issued # << >>
    /\ \E k \in Positions : results[k].res.status = "check_error"

\* What the unit of record i ends with when its probe request fails at
\* transport level or times out.
FailedProbe(i) ==
    IF mode = "cpa"
    THEN cpa_check_entry(inputs[i], ApiCallReply("fail", 0, BodyEmpty, FALSE, 0, BodyEmpty))
    ELSE check_credential(inputs[i], RunNow, TransportFailure)

ProbeFailureReasons == {"provider check failed", "cpa api-call failed"}

\* No unit is cancelled or touched by another: a unit is queued, running or
\* done, a unit that is not done holds no result, and what the main thread
\* collected for a unit is what that unit's own future holds.
UnitsIsolated ==
    /\ \A i \in Units :
          /\ unit[i] \in {"queued", "running", "done"}
          /\ unit[i] # "done" => future[i] = Pending
    /\ \A k \in Positions :
          /\ unit[results[k].idx] = "done"
          /\ ~future[results[k].idx].raised
          /\ results[k].res = future[results[k].idx].result

\* The unit of record i, were its probe request to fail, would end as the
\* claim says.
FailureCaught(i) ==
    LET out == FailedProbe(i) IN
    out.calls > 0 =>
        /\ ~out.raised
        /\ out.result.status = "check_error"
        /\ out.result.http_status = None
        /\ out.result.detail # << >>
        /\ out.result.reason \in ProbeFailureReasons

\* A unit that ended with the reason of a failed probe ended as FailedProbe
\* says, whatever the other units did, and let no exception escape.
EndedOnItsOwn(i) ==
    future[i].result.reason \in ProbeFailureReasons =>
        /\ future[i] = FailedProbe(i)
        /\ ~future[i].raised

SourceFails(w) ==
    IF w.cpa_url
    THEN \/ ~w.management_key
         \/ w.listing # "ok"
         \/ w.records = "none"
    ELSE \/ w.auth_dir = w.repo_url
         \/ w.auth_dir /\ ~w.dir
         \/ w.repo_url /\ ~w.clone
         \/ w.repo_url /\ ~w.subdir
         \/ w.records = "none"

\* C17: fatal source failures.  When the credential source cannot be loaded
\* (directory missing, both or neither of --auth-dir / --repo-url, clone
\* failure, auth subdirectory missing, a listing that is no HTTP 200 or has
\* no files list, no management key, no record), run_once raises and no
\* check unit was submitted, no probe sent, no deletion executor and no git
\* called.
C17_FatalSourceFailure ==
    (source # NoSource /\ SourceFails(source)) =>
        /\ pc = "raised"
        /\ inputs = << >>
        /\ unit = << >>
        /\ future = << >>
        /\ results = << >>
        /\ calls = << >>
        /\ git_calls = << >>
        /\ backend = {}

\* The management API answered the listing with a status other than 200 and
\* run_once raised.
C17_Witness ==
    /\ pc = "raised"
    /\ source.cpa_url
    /\ source.management_key
    /\ source.listing = "http_error"

\* C18: identifier uniqueness.  In every mode the identifiers (file) of the
\* results of one run are pairwise distinct.
C18_UniqueIdentifiers ==
    \A j \in Positions : \A k \in Positions :
        j # k => results[j].res.file # results[k].res.file

\* cpa_check_entry was applied to an entry that is a JSON object.
CheckedEntry ==
    /\ fnIn.kind = "entry"
    /\ fnOut # Idle
    /\ fnIn.entry.obj

\* C19: missing routing index.  Every entry of the files list that has no
\* auth_index comes out unknown, with the reason "missing auth_index from CPA
\* auth-files", no http status and no detail, and no api-call request is
\* sent for it, whatever its provider and whatever the endpoint would answer.
C19_MissingAuthIndex ==
    (CheckedEntry /\ fnIn.entry.auth_index = "") =>
        /\ ~fnOut.out.raised
        /\ fnOut.out.calls = 0
        /\ fnOut.out.result.status = "unknown"
        /\ fnOut.out.result.reason = "missing auth_index from CPA auth-files"
        /\ fnOut.out.result.http_status = None
        /\ fnOut.out.result.detail = << >>
        /\ fnOut.out.result.provider =
              NormalizeProvider(Or(fnIn.entry.provider, Or(fnIn.entry.type, "unknown")))

\* A codex entry without auth_index came out unknown although the endpoint
\* would have reported an invalidated token.
C19_Witness ==
    /\ CheckedEntry
    /\ fnIn.entry.auth_index = ""
    /\ fnIn.entry.provider = "codex"
    /\ fnIn.reply.env_ok
    /\ fnIn.reply.env_code = 401
    /\ fnIn.reply.env_body = BodyTokenInvalidated
    /\ fnOut.out.result.status = "unknown"

Verdicts == {"invalidated", "deactivated", "unauthorized"}

\* C20: proxy failures are not provider verdicts.  A record is classified
\* invalidated, deactivated or unauthorized only if the api-call endpoint
\* answered 200 with an envelope whose status_code is the status that was
\* classified; an answer of the endpoint itself other than 200 never gives
\* invalidated, deactivated, unauthorized or active.
C20_ProxyFailureNoVerdict ==
    CheckedEntry =>
        /\ (~fnOut.out.raised /\ fnOut.out.result.status \in Verdicts) =>
              /\ fnIn.reply.kind = "http"
              /\ fnIn.reply.code = 200
              /\ fnIn.reply.env_ok
              /\ fnOut.out.result.http_status = Some(fnIn.reply.env_code)
        /\ (fnIn.reply.kind = "http" /\ fnIn.reply.code # 200) =>
              fnOut.out.result.status \notin (Verdicts \cup {"active"})

\* Call n of a deletion executor is a real one: it may unlink or send DELETE.
RealCall(n) == ~calls[n].dry_run

Yes(k, prompt) == Len(answers) >= k /\ answers[k] = Answer(prompt, TRUE)

SomeNo == \E k \in 1..Len(answers) : ~answers[k].yes

\* C21: interactive confirmation gate.  In interactive mode a real deletion
\* call is made only if the user picked a non-empty status set, chose "apply"
\* or "dry_then_apply" and answered yes to the confirmation; with
\* "dry_then_apply" the real call is the second call, comes after a dry-run
\* call that returned, and needs a second yes; and when the user chose "dry",
\* cancelled, or answered no to a confirmation, no call has unlinked or sent
\* a DELETE and every call left the backend as it found it.
C21_InteractiveGate ==
    interactive =>
        /\ \A n \in 1..Len(calls) :
              RealCall(n) =>
                  /\ delete_statuses # {}
                  /\ calls[n].statuses = delete_statuses
                  /\ interactive_mode \in {"apply", "dry_then_apply"}
                  /\ Yes(1, "confirm")
                  /\ interactive_mode = "apply" => n = 1
                  /\ interactive_mode = "dry_then_apply" =>
                        /\ n = 2
                        /\ calls[1].dry_run
                        /\ ~calls[1].raised
                        /\ Yes(2, "confirm_real")
        /\ (interactive_mode \in {"dry", "none"} \/ delete_statuses = {} \/ SomeNo) =>
              \A n \in 1..Len(calls) :
                  /\ calls[n].dry_run
                  /\ calls[n].issued = << >>
                  /\ calls[n].after = calls[n].before
        /\ Len(calls) <= 2
        /\ interactive_mode = "dry_then_apply" /\ calls # << >> => calls[1].dry_run

\* The user chose "dry_then_apply" and answered yes twice; the dry-run pass
\* changed nothing and the real pass that followed removed a credential.
C21_Witness ==
    /\ interactive
    /\ interactive_mode = "dry_then_apply"
    /\ answers = << Answer("confirm", TRUE), Answer("confirm_real", TRUE) >>
    /\ Len(calls) = 2
    /\ calls[1].dry_run
    /\ calls[1].after = calls[1].before
    /\ ~calls[2].dry_run
    /\ calls[2].issued # << >>
    /\ calls[2].after # calls[2].before

\* A real deletion call removed something from the backend.
Removed == \E n \in 1..Len(calls) : RealCall(n) /\ calls[n].after # calls[n].before

\* C22: deletions are always reported.  A run in which a real deletion call
\* removed at least one credential does not end by an exception: run_once
\* returns its report, whose deleted_files is the list of the last real
\* call, also when the git commit or the git push that follows fails.
C22_DeletionsReported ==
    Removed =>
        /\ pc # "raised"
        /\ pc = "done" => (calls # << >> /\ deleted_files = LastCall.returned)

====
